---- MODULE Spec2Model ----
(***************************************************************************)
(* On-demand NAT gateway lifecycle (RequestGateway.py).                    *)
(*                                                                         *)
(* The provider (EC2) state is the gateways, the default route of every    *)
(* tagged route table, the tagged addresses and the public subnets.  An    *)
(* invocation of request_gateway_handler or check_gateway_required is a    *)
(* process whose steps are the provider calls it makes, in program order;  *)
(* every provider call may raise.  Time is counted in minutes.             *)
(***************************************************************************)
EXTENDS Integers, Sequences, FiniteSets, TLC

\* ------------------------------------------------------------- bounds
MaxGateways == 2
NumRouteTables == 2
NumSubnets == 2
MaxTicks == 3
\* Invocations started in a run with overlapping invocations.
MaxRuns == 3

\* timedelta(minutes=45)
Threshold == 45

GatewayIds == 1..MaxGateways
RouteTables == 1..NumRouteTables
Procs == 1..2
\* Amounts by which the clock advances between two steps.
TickSteps == {1, Threshold - 1}

\* Route targets: 0 is "no default route", Foreign is a target that is no
\* gateway of this program (an internet gateway, an instance, ...).
Foreign == MaxGateways + 1

VARIABLES
    gateways,     \* provider: id -> [state, created, lastRequested]
    routes,       \* provider: route table -> target of its 0.0.0.0/0 route
    addresses,    \* provider: allocation ids tagged OnDemandNAT-IPAddr
    subnets,      \* provider: public subnets of the network
    environ,      \* os.environ: which of VPC_ID, VPC_NAME are set
    clock,        \* wall clock, minutes
    ticks,        \* number of clock advances so far
    inv           \* the invocations: proc -> locals, position and call log

vars == <<gateways, routes, addresses, subnets, environ, clock, ticks, inv>>
provider == <<gateways, routes, addresses, subnets, environ>>

\* ------------------------------------------------ timestamps as strings
\* A tag value is a string; here a sequence of characters 0..9 (digits) and
\* 10 (any other character).  None is the absent tag.
None == [present |-> FALSE, value |-> <<>>]
Str(s) == [present |-> TRUE, value |-> s]

RECURSIVE Digits(_)
Digits(n) == IF n < 10 THEN <<n>> ELSE Append(Digits(n \div 10), n % 10)

\* '%s' % datetime.utcnow()
FormatNow(t) == Str(Digits(t))

RECURSIVE Number(_)
Number(s) ==
    IF Len(s) = 0 THEN 0
    ELSE 10 * Number(SubSeq(s, 1, Len(s) - 1)) + s[Len(s)]

\* parser.isoparse accepts the string or raises ValueError.
Parses(s) == Len(s) > 0 /\ \A i \in 1..Len(s) : s[i] \in 0..9
isoparse(s) == Number(s)

\* ------------------------------------------------------ invocation record
Idle ==
    [ pc |-> "idle", kind |-> "none", job |-> FALSE, start |-> 0, n |-> 0,
      gateway_list |-> <<>>, listed |-> "unset",
      allocId |-> 0, subnetId |-> 0, gatewayId |-> 0,
      routes_list |-> <<>>, i |-> 1,
      nat_existing |-> FALSE, gw_change_list |-> <<>>,
      result |-> "none", returned |-> "none", failedAt |-> "none",
      createReqs |-> <<>>, tagReqs |-> <<>>, deleteReqs |-> <<>>,
      routeLog |-> <<>>, jobSuccess |-> 0, jobFailure |-> 0, notified |-> 0,
      routes0 |-> [t \in RouteTables |-> 0],
      environ0 |-> [v \in {"VPC_ID", "VPC_NAME"} |-> TRUE],
      gateways0 |-> [g \in GatewayIds |->
                       [state |-> "none", created |-> 0, lastRequested |-> None]] ]

Init ==
    /\ gateways = [g \in GatewayIds |->
                     [state |-> "none", created |-> 0, lastRequested |-> None]]
    /\ routes \in {[t \in RouteTables |-> 0],
                  [t \in RouteTables |-> IF t = 1 THEN Foreign ELSE 0]}
    /\ addresses \in {{}, {1}}
    /\ subnets \in {{}, 1..NumSubnets}
    /\ environ \in [{"VPC_ID", "VPC_NAME"} -> BOOLEAN]
    /\ clock = 0
    /\ ticks = 0
    /\ inv = [p \in Procs |-> Idle]

\* ------------------------------------------------------------ environment
Tick ==
    /\ ticks < MaxTicks
    /\ \E d \in TickSteps : clock' = clock + d
    /\ ticks' = ticks + 1
    /\ UNCHANGED <<provider, inv>>

\* The provider finishes starting a gateway.
GatewayAvailable ==
    \E g \in GatewayIds :
        /\ gateways[g].state = "pending"
        /\ gateways' = [gateways EXCEPT ![g].state = "available"]
        /\ UNCHANGED <<routes, addresses, subnets, environ, clock, ticks, inv>>

\* ----------------------------------------------------- shared operations
Running(p) == inv[p].pc \notin {"idle", "done"}

\* A fresh invocation of the given entry point; routes0 and gateways0
\* remember the provider state the invocation started from, environ0 the
\* environment it runs in.
Fresh(kind, job, first) ==
    [Idle EXCEPT !.pc = first, !.kind = kind, !.job = job, !.start = clock,
                 !.routes0 = routes, !.gateways0 = gateways,
                 !.environ0 = environ]

\* describe_nat_gateways with the state filter, projected by the jmespath
\* expression to [NatGatewayId, State, CreateTime, LastRequested tag].
RECURSIVE DescribeFrom(_)
DescribeFrom(g) ==
    IF g > MaxGateways THEN <<>>
    ELSE (IF gateways[g].state \in {"pending", "available"}
          THEN << [gatewayId |-> g, state |-> gateways[g].state,
                   created |-> gateways[g].created,
                   lastRequested |-> gateways[g].lastRequested] >>
          ELSE <<>>) \o DescribeFrom(g + 1)

list_available_only == SelectSeq(DescribeFrom(1), LAMBDA gw : gw.state = "available")
list_nat_gateways == DescribeFrom(1)

\* list_nat_gateways returns None for an empty result; the handlers test
\* gateway_list == None.
IsNone_always(list) == TRUE
IsNone(list) == list = <<>>

\* The inventory an invocation observed, as it is kept in its record.
Observed(p) ==
    [inv EXCEPT ![p].gateway_list = list_nat_gateways,
                ![p].listed = IF list_nat_gateways = <<>> THEN "none" ELSE "some"]

\* The invocation ends: its locals are gone, what it returned or raised and
\* the calls it made remain.
Ended(rec, result, returned) ==
    [rec EXCEPT !.pc = "done", !.result = result, !.returned = returned,
                !.allocId = 0, !.subnetId = 0, !.routes_list = <<>>, !.i = 1]

\* The exception leaves the try block of request_gateway_handler.
Raise(p) == [inv EXCEPT ![p].pc = "except", ![p].failedAt = inv[p].pc]

\* ------------------------------------------------ request_gateway_handler
StartRequest(p) ==
    /\ \A q \in Procs : ~Running(q)
    /\ \E job \in BOOLEAN : inv' = [inv EXCEPT ![p] = Fresh("request", job, "r_list")]
    /\ UNCHANGED <<provider, clock, ticks>>

\* gateway_list = list_nat_gateways(); KeyError when VPC_ID is not set.
RList(p) ==
    /\ inv[p].pc = "r_list"
    /\ inv' = IF ~environ["VPC_ID"] THEN Raise(p)
              ELSE IF IsNone(list_nat_gateways)
                   THEN [Observed(p) EXCEPT ![p].pc = "c_addr"]
                   ELSE [Observed(p) EXCEPT ![p].pc = "touch",
                                            ![p].nat_existing = TRUE, ![p].i = 1]
    /\ UNCHANGED <<provider, clock, ticks>>

\* create_nat_gateway: Addresses[0].AllocationId, or None (0) when there is
\* no tagged address; KeyError when VPC_NAME is not set.
CAddr(p) ==
    /\ inv[p].pc = "c_addr"
    /\ inv' = IF ~environ["VPC_NAME"] THEN Raise(p)
              ELSE [inv EXCEPT ![p].pc = "c_subnet",
                               ![p].allocId = IF addresses = {} THEN 0
                                              ELSE CHOOSE a \in addresses :
                                                     \A b \in addresses : a <= b]
    /\ UNCHANGED <<provider, clock, ticks>>

\* random.choice(subnet_list); IndexError on the empty list.
CSubnet(p) ==
    /\ inv[p].pc = "c_subnet"
    /\ IF subnets = {} THEN inv' = Raise(p)
       ELSE \E s \in subnets :
              inv' = [inv EXCEPT ![p].pc = "c_create", ![p].subnetId = s]
    /\ UNCHANGED <<provider, clock, ticks>>

\* The gateway id the provider hands out next (0: quota exhausted).
NextGatewayId_reused == CHOOSE g \in GatewayIds : \A h \in GatewayIds : g <= h
NextGatewayId ==
    IF \E g \in GatewayIds : gateways[g].state = "none"
    THEN CHOOSE g \in GatewayIds :
           /\ gateways[g].state = "none"
           /\ \A h \in GatewayIds : gateways[h].state = "none" => g <= h
    ELSE 0

\* ec2.create_nat_gateway(AllocationId=allocId, SubnetId=subnetId).  The call
\* is made whatever allocId is; the client rejects a None allocation.
CCreate(p) ==
    /\ inv[p].pc = "c_create"
    /\ LET g == NextGatewayId
           called == [inv EXCEPT ![p].createReqs = Append(@, inv[p].allocId),
                                 ![p].subnetId = 0]
       IN IF inv[p].allocId = 0 \/ g = 0
          THEN /\ inv' = [called EXCEPT ![p].pc = "except",
                                        ![p].failedAt = "c_create"]
               /\ UNCHANGED gateways
          ELSE /\ inv' = [called EXCEPT ![p].pc = "c_tag", ![p].gatewayId = g]
               /\ gateways' = [gateways EXCEPT ![g] =
                                 [state |-> "pending", created |-> clock,
                                  lastRequested |-> None]]
    /\ UNCHANGED <<routes, addresses, subnets, environ, clock, ticks>>

\* ec2.create_tags(Resources=[gatewayId], Tags=[..., LastRequested = now]).
create_tags_if_absent(g) ==
    [gateways EXCEPT ![g].lastRequested = IF @ = None THEN FormatNow(clock) ELSE @]
create_tags(g) == [gateways EXCEPT ![g].lastRequested = FormatNow(clock)]

CTag(p) ==
    /\ inv[p].pc = "c_tag"
    /\ gateways' = create_tags(inv[p].gatewayId)
    /\ inv' = [inv EXCEPT ![p].pc = "c_wait",
                          ![p].tagReqs = Append(@, inv[p].gatewayId)]
    /\ UNCHANGED <<routes, addresses, subnets, environ, clock, ticks>>

\* waiter.wait(NatGatewayIds=[gatewayId]) returns once the gateway is available.
CWait(p) ==
    /\ inv[p].pc = "c_wait"
    /\ gateways[inv[p].gatewayId].state = "available"
    /\ inv' = [inv EXCEPT ![p].pc = "u_list"]
    /\ UNCHANGED <<provider, clock, ticks>>

\* ---------------------------------------------------- update_route_tables
\* describe_route_tables(tag:OnDemandNAT), in the provider's order.
tagged_route_tables == [t \in 1..NumRouteTables |-> t]

UList(p) ==
    /\ inv[p].pc = "u_list"
    /\ inv' = [inv EXCEPT ![p].routes_list = tagged_route_tables, ![p].i = 1,
                          ![p].pc = IF tagged_route_tables = <<>>
                                    THEN "job_ok" ELSE "u_delete"]
    /\ UNCHANGED <<provider, clock, ticks>>

\* ec2.delete_route(RouteTableId, '0.0.0.0/0'): the outcome the provider
\* reports and the routes it leaves.
delete_route_outcome(rt) == IF routes[rt] = 0 THEN "InvalidRoute.NotFound" ELSE "ok"
delete_route_all(rt) == [t \in RouteTables |-> 0]
delete_route(rt) == [routes EXCEPT ![rt] = 0]

\* try: delete_route ... except ClientError: only InvalidRoute.NotFound is
\* ignored, any other code is raised again.
Ignored_never(code) == FALSE
Ignored(code) == code = "InvalidRoute.NotFound"

UDelete(p) ==
    /\ inv[p].pc = "u_delete"
    /\ LET rt == inv[p].routes_list[inv[p].i] IN
       \E code \in {delete_route_outcome(rt), "Other"} :
          /\ routes' = IF code = "ok" THEN delete_route(rt) ELSE routes
          /\ LET logged == [inv EXCEPT ![p].routeLog =
                              Append(@, [op |-> "delete", rt |-> rt, res |-> code,
                                         target |-> routes[rt]])]
             IN inv' = IF code = "ok" \/ Ignored(code)
                       THEN [logged EXCEPT ![p].pc = "u_create"]
                       ELSE [logged EXCEPT ![p].pc = "except",
                                           ![p].failedAt = "u_delete"]
    /\ UNCHANGED <<gateways, addresses, subnets, environ, clock, ticks>>

\* ec2.create_route(RouteTableId, '0.0.0.0/0', NatGatewayId=gatewayId); the
\* provider refuses (RouteAlreadyExists) when the table has a default route.
create_route_lost(rt, g) == routes
create_route(rt, g) == [routes EXCEPT ![rt] = g]

UCreate(p) ==
    /\ inv[p].pc = "u_create"
    /\ LET rt == inv[p].routes_list[inv[p].i] IN
       IF routes[rt] # 0
       THEN /\ inv' = Raise(p)
            /\ UNCHANGED routes
       ELSE /\ routes' = create_route(rt, inv[p].gatewayId)
            /\ inv' = [inv EXCEPT
                 ![p].routeLog = Append(@, [op |-> "create", rt |-> rt, res |-> "ok",
                                            target |-> inv[p].gatewayId]),
                 ![p].i = @ + 1,
                 ![p].pc = IF inv[p].i = Len(inv[p].routes_list)
                           THEN "job_ok" ELSE "u_delete"]
    /\ UNCHANGED <<gateways, addresses, subnets, environ, clock, ticks>>

\* ------------------------------------- request_gateway_handler, continued
\* for (gatewayId, ...) in gateway_list: create_tags(LastRequested = now)
Touch(p) ==
    /\ inv[p].pc = "touch"
    /\ LET g == inv[p].gateway_list[inv[p].i].gatewayId IN
       /\ gateways' = create_tags(g)
       /\ inv' = [inv EXCEPT ![p].tagReqs = Append(@, g), ![p].i = @ + 1,
                             ![p].pc = IF inv[p].i = Len(inv[p].gateway_list)
                                       THEN "job_ok" ELSE "touch"]
    /\ UNCHANGED <<routes, addresses, subnets, environ, clock, ticks>>

\* if 'CodePipeline.job' in event: cp.put_job_success_result(jobId)
JobOk(p) ==
    /\ inv[p].pc = "job_ok"
    /\ inv' = [inv EXCEPT ![p].pc = "notify",
                          ![p].jobSuccess = IF inv[p].job THEN @ + 1 ELSE @]
    /\ UNCHANGED <<provider, clock, ticks>>

\* invoke_lambda(event['Records'][0]['body'])
invoke_lambda_dropped(p) == inv
invoke_lambda(p) == [inv EXCEPT ![p].notified = @ + 1]

\* invoke_lambda(...); return info
Notify(p) ==
    /\ inv[p].pc = "notify"
    /\ inv' = [inv EXCEPT ![p] = Ended(invoke_lambda(p)[p], "ok", "info")]
    /\ UNCHANGED <<provider, clock, ticks>>

\* The calls of request_gateway_handler that may raise for reasons of the
\* provider, the job channel or the downstream target.
RequestCalls(p) ==
    {"r_list", "c_addr", "c_subnet", "c_create", "c_tag", "c_wait", "u_list",
     "u_create", "touch", "notify"} \cup (IF inv[p].job THEN {"job_ok"} ELSE {})

RequestCallFails(p) ==
    /\ inv[p].kind = "request"
    /\ inv[p].pc \in RequestCalls(p)
    /\ inv' = Raise(p)
    /\ UNCHANGED <<provider, clock, ticks>>

\* except BaseException as e: put_job_failure_result if there is a job; raise e
\* (jobFailure counts the reports issued; if the report itself raises, that
\* exception reaches the caller instead of e).
report_failure_dropped(p) == inv
report_failure(p) == [inv EXCEPT ![p].jobFailure = IF inv[p].job THEN @ + 1 ELSE @]

Except(p) ==
    /\ inv[p].pc = "except"
    /\ inv' = [inv EXCEPT ![p] = Ended(report_failure(p)[p], "error", "none")]
    /\ UNCHANGED <<provider, clock, ticks>>

\* -------------------------------------------------- check_gateway_required
StartCheck(p) ==
    /\ \A q \in Procs : ~Running(q)
    /\ inv' = [inv EXCEPT ![p] = Fresh("check", FALSE, "k_list")]
    /\ UNCHANGED <<provider, clock, ticks>>

\* An exception of check_gateway_required reaches the caller.
Propagate(p) ==
    [inv EXCEPT ![p] = Ended([inv[p] EXCEPT !.failedAt = inv[p].pc], "error", "none")]

\* if gateway_list == None: return   (no notification, no report)
NothingToDo_falls_through(rec) == [rec EXCEPT !.pc = "k_notify"]
NothingToDo(rec) == Ended(rec, "ok", "none")

\* gateway_list = list_nat_gateways(); if None: return
KList(p) ==
    /\ inv[p].pc = "k_list"
    /\ inv' = IF ~environ["VPC_ID"]
              THEN Propagate(p)
              ELSE IF IsNone(list_nat_gateways)
                   THEN [inv EXCEPT ![p] = NothingToDo(Observed(p)[p])]
                   ELSE [Observed(p) EXCEPT ![p].pc = "k_loop", ![p].i = 1]
    /\ UNCHANGED <<provider, clock, ticks>>

\* age = datetime.now(created.tzinfo) - created
Age(gw) == clock - gw.created

\* inactive = utcnow() - isoparse(lastRequested) if lastRequested != None
\*            else age
Inactive_age(gw) == Age(gw)
Inactive(gw) ==
    IF gw.lastRequested # None
    THEN clock - isoparse(gw.lastRequested.value)
    ELSE Age(gw)

\* isoparse raises on a tag value it cannot read.
ParseFails_never(gw) == FALSE
ParseFails(gw) == gw.lastRequested # None /\ ~Parses(gw.lastRequested.value)

\* if inactive >= timedelta(minutes=45)
Expired_strict(inactive) == inactive > Threshold
Expired(inactive) == inactive >= Threshold

\* ec2.delete_nat_gateway(NatGatewayId=gatewayId).  The state filter never
\* returns a deleted gateway again, so its attributes are dropped.
delete_nat_gateway_ignored(g) == gateways
delete_nat_gateway(g) ==
    [gateways EXCEPT ![g] = [state |-> "deleted", created |-> 0,
                             lastRequested |-> None]]

\* One iteration of the loop over gateway_list.
KLoop(p) ==
    /\ inv[p].pc = "k_loop"
    /\ LET gw == inv[p].gateway_list[inv[p].i]
           next == IF inv[p].i = Len(inv[p].gateway_list) THEN "k_notify" ELSE "k_loop"
       IN IF ParseFails(gw)
          THEN /\ inv' = Propagate(p)
               /\ UNCHANGED gateways
          ELSE LET rec(action) == [action |-> action, gatewayId |-> gw.gatewayId,
                                   age |-> Age(gw), inactive |-> Inactive(gw)]
               IN IF Expired(Inactive(gw))
                  THEN /\ gateways' = delete_nat_gateway(gw.gatewayId)
                       /\ inv' = [inv EXCEPT
                            ![p].deleteReqs = Append(@, gw.gatewayId),
                            ![p].gw_change_list = Append(@, rec("deleted")),
                            ![p].i = @ + 1, ![p].pc = next]
                  ELSE /\ UNCHANGED gateways
                       /\ inv' = [inv EXCEPT
                            ![p].gw_change_list = Append(@, rec("skipped")),
                            ![p].i = @ + 1, ![p].pc = next]
    /\ UNCHANGED <<routes, addresses, subnets, environ, clock, ticks>>

\* info['nat-changed'] = gw_change_list; invoke_lambda(...); return info
KNotify(p) ==
    /\ inv[p].pc = "k_notify"
    /\ inv' = [inv EXCEPT ![p] = Ended(invoke_lambda(p)[p], "ok", "nat-changed")]
    /\ UNCHANGED <<provider, clock, ticks>>

\* A provider call of check_gateway_required raises; nothing catches it.
CheckCallFails(p) ==
    /\ inv[p].kind = "check"
    /\ \/ inv[p].pc \in {"k_list", "k_notify"}
       \/ /\ inv[p].pc = "k_loop"
          /\ ~ParseFails(inv[p].gateway_list[inv[p].i])
          /\ Expired(Inactive(inv[p].gateway_list[inv[p].i]))
    /\ inv' = Propagate(p)
    /\ UNCHANGED <<provider, clock, ticks>>

\* ----------------------------------------------------------- specification
Step(p) ==
    \/ StartRequest(p) \/ RList(p)
    \/ CAddr(p) \/ CSubnet(p) \/ CCreate(p) \/ CTag(p) \/ CWait(p)
    \/ UList(p) \/ UDelete(p) \/ UCreate(p)
    \/ Touch(p) \/ JobOk(p) \/ Notify(p) \/ RequestCallFails(p) \/ Except(p)
    \/ StartCheck(p) \/ KList(p) \/ KLoop(p) \/ KNotify(p) \/ CheckCallFails(p)

\* Invocations run one after another: a single process serves them all.
Next == Tick \/ GatewayAvailable \/ Step(1)

Spec == Init /\ [][Next]_vars

\* The runtime runs a check it has started to its end, and the schedule
\* (a periodic rule) starts the next check once nothing is running.
SpecLive ==
    /\ Spec
    /\ WF_vars(KList(1) \/ KLoop(1) \/ KNotify(1))
    /\ WF_vars(StartCheck(1))

\* ------------------------------------------- the provider's other clients
\* Somebody else writes the LastRequested tag of a gateway, with a value that
\* is no timestamp, between two invocations.
Malformed == Str(<<10>>)

CorruptTag ==
    \E g \in GatewayIds :
        /\ \A q \in Procs : ~Running(q)
        /\ gateways[g].state \in {"pending", "available"}
        /\ gateways[g].lastRequested # Malformed
        /\ gateways' = [gateways EXCEPT ![g].lastRequested = Malformed]
        /\ UNCHANGED <<routes, addresses, subnets, environ, clock, ticks, inv>>

\* The functions are deployed again with another environment, between two
\* invocations.
Reconfigure ==
    /\ \A q \in Procs : ~Running(q)
    /\ \E e \in [{"VPC_ID", "VPC_NAME"} -> BOOLEAN] : e # environ /\ environ' = e
    /\ UNCHANGED <<gateways, routes, addresses, subnets, clock, ticks, inv>>

NextTags == Next \/ CorruptTag

\* Sequential invocations, with foreign tag writes.
SpecTags == Init /\ [][NextTags]_vars

NextDeploy == Next \/ Reconfigure

\* Sequential invocations, with redeployments.
SpecDeploy == Init /\ [][NextDeploy]_vars

\* -------------------------------------------------- overlapping invocations
\* The runtime starts an invocation whatever the other one is doing; n
\* counts the invocations a process has served.
Started == inv[1].n + inv[2].n

BeginRequest(p) ==
    /\ ~Running(p) /\ Started < MaxRuns
    /\ \E job \in BOOLEAN :
          inv' = [inv EXCEPT ![p] = [Fresh("request", job, "r_list") EXCEPT
                                       !.n = inv[p].n + 1]]
    /\ UNCHANGED <<provider, clock, ticks>>

BeginCheck(p) ==
    /\ ~Running(p) /\ Started < MaxRuns
    /\ inv' = [inv EXCEPT ![p] = [Fresh("check", FALSE, "k_list") EXCEPT
                                    !.n = inv[p].n + 1]]
    /\ UNCHANGED <<provider, clock, ticks>>

\* Time passes between bursts of invocations.
TickBetween == (\A q \in Procs : ~Running(q)) /\ Tick

\* The steps of an invocation when every call that reaches the provider, the
\* job channel and the downstream target is answered.
\* The calls of a request, and of a check, when every call succeeds.
Serve(p) ==
    \/ RList(p) \/ CAddr(p) \/ CSubnet(p) \/ CCreate(p) \/ CTag(p) \/ CWait(p)
    \/ UList(p) \/ UDelete(p) \/ UCreate(p)
    \/ Touch(p) \/ JobOk(p) \/ Notify(p) \/ Except(p)

Reap(p) == KList(p) \/ KLoop(p) \/ KNotify(p)

InitConc ==
    /\ Init
    /\ environ = [v \in {"VPC_ID", "VPC_NAME"} |-> TRUE]
    /\ addresses # {} /\ subnets # {}

\* Two requests arrive together and are served call by call, interleaved.
NextRace ==
    \/ GatewayAvailable
    \/ \E p \in Procs : (inv[p].pc = "idle" /\ BeginRequest(p)) \/ Serve(p)

SpecRace == InitConc /\ [][NextRace]_vars

\* Requests (process 1) and scheduled checks (process 2) overlap.
NextConc ==
    \/ TickBetween \/ GatewayAvailable
    \/ BeginRequest(1) \/ Serve(1)
    \/ BeginCheck(2) \/ Reap(2)

SpecConc == InitConc /\ [][NextConc]_vars

\* ================================================================ claims
Requests == {p \in Procs : inv[p].kind = "request"}
Checks == {p \in Procs : inv[p].kind = "check"}
Live(g) == gateways[g].state \in {"pending", "available"}
ListedIds(p) == [k \in 1..Len(inv[p].gateway_list) |-> inv[p].gateway_list[k].gatewayId]

\* update_route_tables(gatewayId) of invocation p has returned.
UpdateCompleted(p) ==
    /\ inv[p].kind = "request"
    /\ inv[p].gatewayId # 0
    /\ \/ inv[p].pc \in {"job_ok", "notify"}
       \/ inv[p].pc \in {"except", "done"} /\ inv[p].failedAt \in {"none", "job_ok", "notify"}

\* C1: once update_route_tables(G) has run to completion, the default route
\* of every tagged route table targets G, whatever it targeted before.
C1_RouteConvergence ==
    \A p \in Procs : UpdateCompleted(p) =>
        \A t \in RouteTables : routes[t] = inv[p].gatewayId

\* A convergence that found one table without default route, one with a
\* foreign target or the route of a gateway deleted since.
C1_Witness ==
    \E p \in Procs :
        /\ UpdateCompleted(p)
        /\ \E t \in RouteTables : inv[p].routes0[t] = 0
        /\ \E t \in RouteTables :
              /\ inv[p].routes0[t] \in GatewayIds
              /\ gateways[inv[p].routes0[t]].state = "deleted"

\* C2: a request that finds the inventory non-empty issues no creation
\* request and changes no route; when it returns, the LastRequested tag of
\* every gateway it discovered holds a time of that invocation.
C2_RequestIdempotence ==
    \A p \in Requests : inv[p].listed = "some" =>
        /\ inv[p].createReqs = <<>>
        /\ inv[p].routeLog = <<>>
        /\ routes = inv[p].routes0
        /\ \A g \in GatewayIds :
              gateways[g].state = "none" <=> inv[p].gateways0[g].state = "none"
        /\ (inv[p].pc = "done" /\ inv[p].result = "ok") =>
              /\ inv[p].tagReqs = ListedIds(p)
              /\ \A k \in 1..Len(inv[p].gateway_list) :
                    \E t \in inv[p].start..clock :
                       gateways[inv[p].gateway_list[k].gatewayId].lastRequested
                          = FormatNow(t)

\* A successful request that replaced an older LastRequested value.
C2_Witness ==
    \E p \in Requests :
        /\ inv[p].listed = "some" /\ inv[p].pc = "done" /\ inv[p].result = "ok"
        /\ \E k \in 1..Len(inv[p].gateway_list) :
              LET gw == inv[p].gateway_list[k] IN
              /\ gw.lastRequested # None
              /\ gateways[gw.gatewayId].lastRequested # gw.lastRequested

\* C3: a gateway processed by the check is recorded 'deleted', and a delete
\* request is issued for it, exactly when its inactivity is at least 45
\* minutes; otherwise it is recorded 'skipped' and no delete is issued.
C3_ReaperThreshold ==
    \A p \in Checks :
        /\ \A k \in 1..Len(inv[p].gw_change_list) :
              LET r == inv[p].gw_change_list[k] IN
              /\ r.action \in {"deleted", "skipped"}
              /\ r.action = "deleted" <=> r.inactive >= Threshold
              /\ r.action = "deleted" <=>
                    \E j \in 1..Len(inv[p].deleteReqs) : inv[p].deleteReqs[j] = r.gatewayId
              /\ r.action = "deleted" => ~Live(r.gatewayId)
        /\ \A j \in 1..Len(inv[p].deleteReqs) :
              \E k \in 1..Len(inv[p].gw_change_list) :
                 /\ inv[p].gw_change_list[k].gatewayId = inv[p].deleteReqs[j]
                 /\ inv[p].gw_change_list[k].inactive >= Threshold

\* A gateway deleted at exactly 45 minutes of inactivity.
C3_Witness ==
    \E p \in Checks : \E k \in 1..Len(inv[p].gw_change_list) :
        /\ inv[p].gw_change_list[k].inactive = Threshold
        /\ inv[p].gw_change_list[k].action = "deleted"
        /\ inv[p].deleteReqs = <<inv[p].gw_change_list[k].gatewayId>>

\* A gateway skipped one minute below the threshold.
C3_WitnessBelow ==
    \E p \in Checks : \E k \in 1..Len(inv[p].gw_change_list) :
        /\ inv[p].gw_change_list[k].inactive = Threshold - 1
        /\ inv[p].gw_change_list[k].action = "skipped"
        /\ inv[p].deleteReqs = <<>>

\* C4: the inactivity recorded for a gateway, on which the reaping decision
\* is taken, is now minus the parsed LastRequested value when the gateway
\* was listed with that tag (the creation time plays no part), and now
\* minus the creation time when it was listed without.
C4_InactivityFallback ==
    [][ \A p \in Procs :
          ( /\ inv'[p].kind = "check"
            /\ Len(inv'[p].gw_change_list) = Len(inv[p].gw_change_list) + 1 ) =>
          LET k == Len(inv'[p].gw_change_list)
              r == inv'[p].gw_change_list[k]
              gw == inv[p].gateway_list[k]
          IN /\ r.gatewayId = gw.gatewayId
             /\ r.inactive = IF gw.lastRequested.present
                             THEN clock - isoparse(gw.lastRequested.value)
                             ELSE clock - gw.created
             /\ r.action = "deleted" <=> r.inactive >= Threshold ]_vars

\* A tagged gateway whose inactivity differs from its age.
C4_Witness ==
    \E p \in Checks : \E k \in 1..Len(inv[p].gw_change_list) :
        /\ inv[p].gateway_list[k].lastRequested # None
        /\ inv[p].gw_change_list[k].inactive # inv[p].gw_change_list[k].age
        /\ inv[p].gw_change_list[k].age >= Threshold
        /\ inv[p].gw_change_list[k].action = "skipped"

\* An untagged gateway, judged by its age.
C4_WitnessUntagged ==
    \E p \in Checks : \E k \in 1..Len(inv[p].gw_change_list) :
        /\ inv[p].gateway_list[k].lastRequested = None
        /\ inv[p].gw_change_list[k].inactive >= Threshold

\* The gateways that exist now and did not when invocation p started.
Provisioned(p) ==
    {g \in GatewayIds : inv[p].gateways0[g].state = "none" /\ gateways[g].state # "none"}

\* C5: a request that returns successfully has, on an empty inventory,
\* provisioned exactly one gateway, converged every tagged route table to it
\* and returned no nat-existing flag; on a non-empty inventory it has touched
\* every discovered gateway, provisioned nothing and returned nat-existing.
C5_RequestBranches ==
    \A p \in Requests : (inv[p].pc = "done" /\ inv[p].result = "ok") =>
        /\ inv[p].returned = "info"
        /\ inv[p].listed \in {"none", "some"}
        /\ inv[p].listed = "none" =>
              /\ Len(inv[p].createReqs) = 1
              /\ Provisioned(p) = {inv[p].gatewayId}
              /\ inv[p].tagReqs = <<inv[p].gatewayId>>
              /\ \A t \in RouteTables : routes[t] = inv[p].gatewayId
              /\ ~inv[p].nat_existing
        /\ inv[p].listed = "some" =>
              /\ inv[p].createReqs = <<>>
              /\ Provisioned(p) = {}
              /\ inv[p].tagReqs = ListedIds(p)
              /\ inv[p].nat_existing

\* A successful provisioning request, with the routes converged.
C5_Witness ==
    \E p \in Requests :
        /\ inv[p].pc = "done" /\ inv[p].result = "ok" /\ inv[p].listed = "none"
        /\ Len(inv[p].routeLog) >= NumRouteTables

\* A successful request on a non-empty inventory.
C5_WitnessExisting ==
    \E p \in Requests :
        /\ inv[p].pc = "done" /\ inv[p].result = "ok" /\ inv[p].listed = "some"

\* The steps of a request before the job report and the notification.
WorkSteps ==
    {"r_list", "c_addr", "c_subnet", "c_create", "c_tag", "c_wait", "u_list",
     "u_delete", "u_create", "touch"}

\* C6: when the inventory query, the provisioning, the route convergence or
\* a touch of a request fails, the failure is reported to the job if the
\* event carries one (and no success is), the caller gets the error, and
\* nothing is forwarded downstream.
C6_FailureSignalling ==
    \A p \in Requests : (inv[p].pc = "done" /\ inv[p].failedAt \in WorkSteps) =>
        /\ inv[p].result = "error"
        /\ inv[p].returned = "none"
        /\ inv[p].jobFailure = (IF inv[p].job THEN 1 ELSE 0)
        /\ inv[p].jobSuccess = 0
        /\ inv[p].notified = 0

\* A request with a job that failed while converging the routes.
C6_Witness ==
    \E p \in Requests :
        /\ inv[p].pc = "done" /\ inv[p].job
        /\ inv[p].failedAt \in {"u_delete", "u_create"}

\* C7: a check that finds the inventory empty deletes nothing, changes no
\* tag and no route, forwards nothing downstream and returns no action list.
C7_EmptyCheckNoOp ==
    \A p \in Checks : inv[p].listed = "none" =>
        /\ inv[p].pc = "done" /\ inv[p].result = "ok"
        /\ inv[p].returned = "none"
        /\ inv[p].gw_change_list = <<>>
        /\ inv[p].deleteReqs = <<>> /\ inv[p].tagReqs = <<>>
        /\ inv[p].notified = 0
        /\ gateways = inv[p].gateways0
        /\ routes = inv[p].routes0

\* A check on an empty inventory, with routes still targeting a gateway
\* that an earlier check deleted.
C7_Witness ==
    \E p \in Checks :
        /\ inv[p].listed = "none" /\ inv[p].pc = "done"
        /\ \E g \in GatewayIds : gateways[g].state = "deleted"

\* C8: a check on a non-empty inventory that completes returns one action
\* record per discovered gateway, in order; delete requests were issued for
\* exactly the gateways recorded 'deleted'; the notification is forwarded
\* once, and only after the last gateway was processed.
C8_CheckReport ==
    \A p \in Checks :
        /\ inv[p].notified > 0 =>
              Len(inv[p].gw_change_list) = Len(inv[p].gateway_list)
        /\ (inv[p].pc = "done" /\ inv[p].result = "ok" /\ inv[p].listed = "some") =>
              /\ inv[p].returned = "nat-changed"
              /\ Len(inv[p].gw_change_list) = Len(inv[p].gateway_list)
              /\ \A k \in 1..Len(inv[p].gateway_list) :
                    inv[p].gw_change_list[k].gatewayId = inv[p].gateway_list[k].gatewayId
              /\ {inv[p].deleteReqs[j] : j \in 1..Len(inv[p].deleteReqs)}
                    = {inv[p].gw_change_list[k].gatewayId :
                         k \in {n \in 1..Len(inv[p].gw_change_list) :
                                  inv[p].gw_change_list[n].action = "deleted"}}
              /\ Len(inv[p].deleteReqs) <= Len(inv[p].gw_change_list)
              /\ inv[p].notified = 1

\* A completed check that deleted a gateway.
C8_Witness ==
    \E p \in Checks :
        /\ inv[p].pc = "done" /\ inv[p].result = "ok" /\ inv[p].listed = "some"
        /\ inv[p].deleteReqs # <<>>

\* Invocation p is inside the loop of update_route_tables.
Converging(p) == inv[p].pc \in {"u_delete", "u_create"}

\* C9: in the converger, a delete of a default route that does not exist is
\* answered route-not-found and the converger goes on to create the route of
\* that table; a delete of an existing default route removes the route of
\* that table and leaves the other tables alone; a delete that fails for
\* another reason ends the converger with the error and no route is created
\* for that table.
C9_IdempotentRouteDeletion ==
    \A p \in Requests :
        /\ \A k \in 1..Len(inv[p].routeLog) :
              LET e == inv[p].routeLog[k] IN
              e.op = "delete" =>
                 /\ e.res = "InvalidRoute.NotFound" => e.target = 0
                 /\ e.res = "ok" => e.target # 0
                 /\ e.res \in {"ok", "InvalidRoute.NotFound"} =>
                       IF k < Len(inv[p].routeLog)
                       THEN /\ inv[p].routeLog[k + 1].op = "create"
                            /\ inv[p].routeLog[k + 1].rt = e.rt
                       ELSE \/ inv[p].pc = "u_create" /\ routes[e.rt] = 0
                            \/ inv[p].failedAt = "u_create"
                 /\ e.res = "Other" =>
                       /\ k = Len(inv[p].routeLog)
                       /\ inv[p].pc \in {"except", "done"}
                       /\ inv[p].failedAt = "u_delete"
                       /\ inv[p].pc = "done" => inv[p].result = "error"
                       /\ routes[e.rt] = e.target
        /\ Converging(p) =>
              \A t \in RouteTables :
                 /\ t > inv[p].i => routes[t] = inv[p].routes0[t]
                 /\ t < inv[p].i => routes[t] = inv[p].gatewayId

\* A converger that deleted an existing route, was told route-not-found for
\* the next table, and gave both tables their new route.
C9_Witness ==
    \E p \in Requests :
        /\ UpdateCompleted(p)
        /\ \E k \in 1..Len(inv[p].routeLog) :
              inv[p].routeLog[k].op = "delete" /\ inv[p].routeLog[k].res = "ok"
        /\ \E k \in 1..Len(inv[p].routeLog) :
              /\ inv[p].routeLog[k].res = "InvalidRoute.NotFound"
              /\ routes[inv[p].routeLog[k].rt] = inv[p].gatewayId

\* A delete that failed for another reason, on a table that had a route.
C9_WitnessFatal ==
    \E p \in Requests :
        /\ inv[p].pc = "done" /\ inv[p].failedAt = "u_delete"
        /\ inv[p].routeLog[Len(inv[p].routeLog)].target # 0

\* C10: no create_nat_gateway request is made with a null allocation: when
\* there is no tagged address, provisioning has failed before the call.
C10_NoNullAllocation ==
    \A p \in Requests : \A k \in 1..Len(inv[p].createReqs) :
        inv[p].createReqs[k] # 0

\* A gateway was listed with a LastRequested value that isoparse rejects.
MalformedTag(gw) == gw.lastRequested.present /\ ~Parses(gw.lastRequested.value)

\* C11: a gateway listed with a malformed LastRequested tag is never given
\* an action record and no delete request is issued for it by that check;
\* the check ends with an error, without report and without notification.
C11_MalformedTagFails ==
    \A p \in Checks : \A k \in 1..Len(inv[p].gateway_list) :
        MalformedTag(inv[p].gateway_list[k]) =>
           /\ Len(inv[p].gw_change_list) < k
           /\ \A j \in 1..Len(inv[p].deleteReqs) :
                 inv[p].deleteReqs[j] # inv[p].gateway_list[k].gatewayId
           /\ inv[p].notified = 0
           /\ inv[p].pc = "done" =>
                 /\ inv[p].result = "error"
                 /\ inv[p].returned = "none"
                 /\ inv[p].failedAt = "k_loop"
                 /\ gateways[inv[p].gateway_list[k].gatewayId].state \in {"pending", "available"}

\* A check that failed on a malformed tag of a gateway older than the
\* threshold, which is still there.
C11_Witness ==
    \E p \in Checks :
        /\ inv[p].pc = "done" /\ inv[p].result = "error"
        /\ \E k \in 1..Len(inv[p].gateway_list) :
              /\ MalformedTag(inv[p].gateway_list[k])
              /\ clock - inv[p].gateway_list[k].created >= Threshold
              /\ gateways[inv[p].gateway_list[k].gatewayId].state = "available"

\* An invocation started without one of the required variables.
Misconfigured(p) == ~inv[p].environ0["VPC_ID"] \/ ~inv[p].environ0["VPC_NAME"]

\* C12: an invocation whose environment lacks VPC_ID or VPC_NAME ends with
\* an error and has created, tagged and deleted no gateway and changed no
\* route.
C12_RequiredConfiguration ==
    \A p \in Procs : (inv[p].kind # "none" /\ Misconfigured(p)) =>
        /\ inv[p].createReqs = <<>> /\ inv[p].tagReqs = <<>>
        /\ inv[p].deleteReqs = <<>> /\ inv[p].routeLog = <<>>
        /\ inv[p].pc = "done" => inv[p].result = "error"

\* The part of C12 about provider mutations alone.
C12_NoMutation ==
    \A p \in Procs : (inv[p].kind # "none" /\ Misconfigured(p)) =>
        /\ inv[p].createReqs = <<>> /\ inv[p].tagReqs = <<>>
        /\ inv[p].deleteReqs = <<>> /\ inv[p].routeLog = <<>>

LiveGateways == {g \in GatewayIds : Live(g)}

\* C13: with invocations run one after another, whatever step any of them
\* failed at, at most one gateway is pending or available.
C13_AtMostOneActive == Cardinality(LiveGateways) <= 1

\* A request that found the gateway left behind by a request that failed
\* after create_nat_gateway, while an older gateway is already deleted.
C13_Witness ==
    \E p \in Requests :
        /\ inv[p].listed = "some" /\ inv[p].pc = "done"
        /\ \E k \in 1..Len(inv[p].gateway_list) :
              /\ inv[p].gateway_list[k].lastRequested = None
              /\ inv[p].gateway_list[k].state = "pending"
        /\ \E g \in GatewayIds : gateways[g].state = "deleted"
        /\ Cardinality(LiveGateways) = 1

\* update_route_tables of invocation p ended with an error while it was
\* processing a route table; FailedTable is that table.
ConvergenceFailed(p) ==
    /\ inv[p].kind = "request"
    /\ inv[p].failedAt \in {"u_delete", "u_create"}
FailedTable(p) == inv[p].routeLog[Len(inv[p].routeLog)].rt

\* C15: when update_route_tables(G) fails at a route table, the tables
\* enumerated before it target G and the tables after it have the default
\* route they had before the call.
C15_PartialConvergence ==
    \A p \in Procs : ConvergenceFailed(p) =>
        \A t \in RouteTables :
           /\ t < FailedTable(p) => routes[t] = inv[p].gatewayId
           /\ t > FailedTable(p) => routes[t] = inv[p].routes0[t]

\* A failure at a later table, an earlier one converged.
C15_Witness ==
    \E p \in Procs :
        /\ ConvergenceFailed(p) /\ inv[p].pc = "done"
        /\ FailedTable(p) > 1
        /\ routes[1] = inv[p].gatewayId /\ routes[1] # inv[p].routes0[1]

\* A failure at the first table; the next still routes to an older gateway.
C15_WitnessUntouched ==
    \E p \in Procs :
        /\ ConvergenceFailed(p) /\ inv[p].pc = "done"
        /\ FailedTable(p) = 1
        /\ routes[2] \in GatewayIds /\ routes[2] # inv[p].gatewayId

\* C17: when a request has returned successfully, every tagged route table
\* has a default route and it targets a pending or available gateway.
C17_SuccessImpliesEgress ==
    \A p \in Requests : (inv[p].pc = "done" /\ inv[p].result = "ok") =>
        \A t \in RouteTables : routes[t] \in GatewayIds /\ Live(routes[t])

\* C19: a request whose event carries a job has, when it ends, reported
\* exactly one result to the job.
C19_ExactlyOneJobResult ==
    \A p \in Requests : (inv[p].pc = "done" /\ inv[p].job) =>
        inv[p].jobSuccess + inv[p].jobFailure = 1

\* C14: double-provisioning race.  Two interleaved requests that both saw an
\* empty inventory and both had their creation request accepted hold two
\* different gateways, both pending or available at once: the provider
\* creates a gateway per request and nothing between the inventory query and
\* the creation request stops the second one.
BothProvisioned ==
    \A p \in Procs :
        /\ inv[p].kind = "request" /\ inv[p].listed = "none"
        /\ inv[p].gatewayId # 0

C14_DoubleProvisioning ==
    BothProvisioned =>
        /\ inv[1].gatewayId # inv[2].gatewayId
        /\ \A p \in Procs : Live(inv[p].gatewayId)
        /\ Cardinality(LiveGateways) = 2

C14_Witness ==
    /\ BothProvisioned
    /\ \A p \in Procs : inv[p].createReqs # <<>> /\ inv[p].gateway_list = <<>>
    /\ Cardinality(LiveGateways) = 2
    /\ \E p \in Procs : inv[p].pc = "done" /\ inv[p].result = "ok"
\* C20: route consistency under concurrent convergence.  When two requests
\* that each provisioned a gateway have both ended, neither was refused a
\* route by the provider, and all tagged route tables send 0.0.0.0/0 to one
\* and the same gateway.
BothEnded == BothProvisioned /\ \A p \in Procs : inv[p].pc = "done"

C20_RouteConsistency ==
    BothEnded =>
        /\ \A p \in Procs : inv[p].failedAt # "u_create"
        /\ \E g \in GatewayIds : \A rt \in RouteTables : routes[rt] = g

\* The second half alone, for two requests that both returned 200.
C20_SameTarget ==
    (BothEnded /\ \A p \in Procs : inv[p].result = "ok") =>
        \E g \in GatewayIds : \A rt \in RouteTables : routes[rt] = g
\* C18: no reaping of a recently requested gateway.  Whenever a check issues
\* a delete request while requests run interleaved with it, the value the
\* provider stores for that gateway at that moment (its LastRequested tag, or
\* its creation time when untagged) is at least 45 minutes old.
Deletes(p) ==
    /\ inv[p].kind = "check" /\ inv'[p].kind = "check"
    /\ Len(inv'[p].deleteReqs) = Len(inv[p].deleteReqs) + 1

DeletedId(p) == inv'[p].deleteReqs[Len(inv'[p].deleteReqs)]

C18_NoReapingOfRecent ==
    [][\A p \in Procs : Deletes(p) => Expired(Inactive(gateways[DeletedId(p)]))]_vars

\* The same for a touch whose request has already returned 200: a check
\* does not delete a gateway that such a request tagged less than 45 minutes
\* ago.
TouchedBy(p) ==
    {g \in GatewayIds : \E k \in 1..Len(inv[p].tagReqs) : inv[p].tagReqs[k] = g}

C18_TouchedSurvives ==
    [][\A q \in Procs : Deletes(q) =>
          ~ \E p \in Requests :
               /\ inv[p].pc = "done" /\ inv[p].result = "ok"
               /\ clock - inv[p].start < Threshold
               /\ DeletedId(q) \in TouchedBy(p)]_vars
\* C16: eventual reclamation.  If from some point on no request is served,
\* no check fails, and enough time has passed for every gateway still pending
\* or available to be inactive for the threshold, then, checks being started
\* again and again, eventually no gateway is pending or available.
NoRequest == \A p \in Procs : ~(Running(p) /\ inv[p].kind = "request")
ChecksSucceed == \A p \in Checks : inv[p].result # "error"
Ripe == \A g \in LiveGateways : Expired(Inactive(gateways[g]))
NoneLive == LiveGateways = {}

C16_EventualReclamation ==
    (<>[]NoRequest /\ <>[]ChecksSucceed /\ <>[]Ripe) => <>[]NoneLive

C16_Witness ==
    /\ NoRequest /\ NoneLive
    /\ \E p \in Checks :
          /\ inv[p].pc = "done" /\ inv[p].result = "ok"
          /\ inv[p].deleteReqs # <<>>
          /\ \E k \in 1..Len(inv[p].gw_change_list) :
                inv[p].gw_change_list[k].inactive < inv[p].gw_change_list[k].age

====
